---- MODULE Spec2Model ----
(***************************************************************************)
(* A model of src/src/math/webgl/shader_compiler.ts: the assembly of the   *)
(* fragment-shader source (makeShader), the addressing functions the       *)
(* generated GLSL computes, and the unsigned-byte codec.                   *)
(*                                                                         *)
(* A piece of generated text is a sequence of tokens. A token stands for   *)
(* one template literal of the source with the numbers and the name it     *)
(* interpolates; NL is the line break that Array.join('\n') inserts.       *)
(***************************************************************************)
EXTENDS Integers, Sequences, FiniteSets, TLC

VARIABLES env, args, first, second, others, desc, acc,
          nanValue, value, texel, decoded

asmVars == <<env, args, first, second, others>>

addrVars == <<desc, acc>>

codecVars == <<nanValue, value, texel, decoded>>

vars == <<asmVars, addrVars, codecVars>>

(***************************************************************************)
(* Bounds of the model.                                                    *)
(***************************************************************************)
MaxRank == 5
MaxInputs == 2
MaxOther == 1
MaxDim == 3
MaxNumel == 12
MaxPad == 1
MaxOut == 6
ValueDen == 16
MaxFloor == 255
LimbBase == 32768
MaxArg == 1

(***************************************************************************)
(* Text.                                                                   *)
(***************************************************************************)
Tok(k, name, nums) == [k |-> k, name |-> name, nums |-> nums]

NL == Tok("\n", "", <<>>)

RECURSIVE Join(_, _)
Join(texts, sep) ==
  IF Len(texts) = 0 THEN <<>>
  ELSE IF Len(texts) = 1 THEN texts[1]
  ELSE texts[1] \o sep \o Join(Tail(texts), sep)

Map(f(_), s) == [i \in 1..Len(s) |-> f(s[i])]

(***************************************************************************)
(* util.sizeFromShape and util.arraysEqual (src/util.ts is not part of the *)
(* sources; modelled from the specification's numel and value equality).   *)
(***************************************************************************)
RECURSIVE sizeFromShape(_)
sizeFromShape(shape) ==
  IF Len(shape) = 0 THEN 1 ELSE Head(shape) * sizeFromShape(Tail(shape))

arraysEqual(n1, n2) ==
  /\ Len(n1) = Len(n2)
  /\ \A i \in 1..Len(n1) : n1[i] = n2[i]

(***************************************************************************)
(* Constants of tex_util (src/math/webgl/tex_util.ts is not part of the    *)
(* sources). FLOAT_MIN and FLOAT_MAX are the bounds of the specification's *)
(* quantized-codec scenario.                                               *)
(***************************************************************************)
FLOAT_MIN == -1
FLOAT_MAX == 1

(***************************************************************************)
(* The fixed snippets.                                                     *)
(***************************************************************************)
SHADER_PREFIX == <<Tok("SHADER_PREFIX", "", <<>>)>>

FLOAT_TEXTURE_SAMPLE_SNIPPET == <<Tok("FLOAT_TEXTURE_SAMPLE_SNIPPET", "", <<>>)>>

FLOAT_TEXTURE_SETOUTPUT_SNIPPET ==
  <<Tok("FLOAT_TEXTURE_SETOUTPUT_SNIPPET", "", <<>>)>>

UNSIGNED_BYTE_TEXTURE_SAMPLE_SNIPPET ==
  <<Tok("UNSIGNED_BYTE_TEXTURE_SAMPLE_SNIPPET", "", <<FLOAT_MIN, FLOAT_MAX>>)>>

UNSIGNED_BYTE_TEXTURE_SETOUTPUT_SNIPPET ==
  <<Tok("UNSIGNED_BYTE_TEXTURE_SETOUTPUT_SNIPPET", "", <<>>)>>

(***************************************************************************)
(* The samplers of one input. texShape is <<rows, cols>>.                  *)
(***************************************************************************)
getSamplerScalar(texName) == <<Tok("getSamplerScalar", texName, <<>>)>>

getSampler1D(texName, texShape) ==
  LET tR == texShape[1]
      tC == texShape[2]
  IN  IF texShape[1] = 1 /\ texShape[2] = 1
        THEN <<Tok("getSampler1D:texel", texName, <<>>)>>
      ELSE IF texShape[2] = 1
        THEN <<Tok("getSampler1D:column", texName, <<tR>>)>>
      ELSE IF texShape[1] = 1
        THEN <<Tok("getSampler1D:row", texName, <<tC>>)>>
      ELSE <<Tok("getSampler1D:UVfrom1D", texName, <<tR, tC>>)>>

\* getSampler2D that, on a one-column texture, takes the row for a 1 x n
\* shape and the column for an n x 1 shape.
getSampler2D_rowForCol(texName, shape, texShape) ==
  LET tR == texShape[1]
      tC == texShape[2]
  IN  IF arraysEqual(shape, texShape)
        THEN <<Tok("getSampler2D:equal", texName, <<tR, tC>>)>>
      ELSE IF tC = 1
        THEN IF shape[1] = 1
               THEN <<Tok("getSampler2D:column:row", texName, <<tR>>)>>
             ELSE IF shape[2] = 1
               THEN <<Tok("getSampler2D:column:col", texName, <<tR>>)>>
             ELSE <<Tok("getSampler2D:column:index", texName, <<tR, shape[2]>>)>>
      ELSE IF tR = 1
        THEN <<Tok("getSampler2D:row", texName, <<tC, shape[2]>>)>>
      ELSE <<Tok("getSampler2D:UVfrom2D", texName, <<tR, tC, shape[2]>>)>>

getSampler2D(texName, shape, texShape) ==
  LET tR == texShape[1]
      tC == texShape[2]
  IN  IF arraysEqual(shape, texShape)
        THEN <<Tok("getSampler2D:equal", texName, <<tR, tC>>)>>
      ELSE IF tC = 1
        THEN IF shape[1] = 1
               THEN <<Tok("getSampler2D:column:col", texName, <<tR>>)>>
             ELSE IF shape[2] = 1
               THEN <<Tok("getSampler2D:column:row", texName, <<tR>>)>>
             ELSE <<Tok("getSampler2D:column:index", texName, <<tR, shape[2]>>)>>
      ELSE IF tR = 1
        THEN <<Tok("getSampler2D:row", texName, <<tC, shape[2]>>)>>
      ELSE <<Tok("getSampler2D:UVfrom2D", texName, <<tR, tC, shape[2]>>)>>

\* getSampler3D whose stride0 is shape[0] * shape[1].
getSampler3D_wrongStride(texName, shape, texShape) ==
  LET tR == texShape[1]
      tC == texShape[2]
      stride0 == shape[1] * shape[2]
      stride1 == shape[3]
  IN  IF tC = stride0
        THEN <<Tok("getSampler3D:stride", texName, <<tR, tC, stride1>>)>>
      ELSE <<Tok("getSampler3D:UVfrom3D", texName, <<tR, tC, stride0, stride1>>)>>

getSampler3D(texName, shape, texShape) ==
  LET tR == texShape[1]
      tC == texShape[2]
      stride0 == shape[2] * shape[3]
      stride1 == shape[3]
  IN  IF tC = stride0
        THEN <<Tok("getSampler3D:stride", texName, <<tR, tC, stride1>>)>>
      ELSE <<Tok("getSampler3D:UVfrom3D", texName, <<tR, tC, stride0, stride1>>)>>

getSampler4D(texName, shape, texShape) ==
  LET tR == texShape[1]
      tC == texShape[2]
      stride2 == shape[4]
      stride1 == shape[3] * stride2
      stride0 == shape[2] * stride1
  IN  IF tC = stride0
        THEN <<Tok("getSampler4D:stride", texName, <<tR, tC, stride1, stride2>>)>>
      ELSE <<Tok("getSampler4D:UVfrom4D", texName,
                 <<tR, tC, stride0, stride1, stride2>>)>>

getSamplerFlat(texName, texShape) ==
  LET tNumR == texShape[1]
      tNumC == texShape[2]
  IN  IF tNumC = 1 /\ tNumR = 1
        THEN <<Tok("getSamplerFlat:texel", texName, <<>>)>>
      ELSE IF tNumC = 1
        THEN <<Tok("getSamplerFlat:column", texName, <<tNumR>>)>>
      ELSE IF tNumR = 1
        THEN <<Tok("getSamplerFlat:row", texName, <<tNumC>>)>>
      ELSE <<Tok("getSamplerFlat:generic", texName, <<tNumR, tNumC>>)>>

(***************************************************************************)
(* nums of the generic token: the output texture's rows and columns, the   *)
(* broadcast divisor inSize (0 when the broadcast snippet is left out),    *)
(* then the input texture's columns as divisor and the two numbers of the  *)
(* final vec2 in the order the template writes them.                       *)
(***************************************************************************)
\* getSamplerAtOutputCoords that leaves the broadcast snippet out.
getSamplerAtOutputCoords_noWrap(texName, inTexShape, outTexShape, broadcast) ==
  IF arraysEqual(inTexShape, outTexShape)
    THEN <<Tok("getSamplerAtOutputCoords:resultUV", texName, <<>>)>>
  ELSE <<Tok("getSamplerAtOutputCoords:generic", texName,
             <<outTexShape[1], outTexShape[2], 0,
               inTexShape[2], inTexShape[2], inTexShape[1]>>)>>

\* getSamplerAtOutputCoords that divides the index by the output's columns.
getSamplerAtOutputCoords_outCols(texName, inTexShape, outTexShape, broadcast) ==
  IF arraysEqual(inTexShape, outTexShape)
    THEN <<Tok("getSamplerAtOutputCoords:resultUV", texName, <<>>)>>
  ELSE <<Tok("getSamplerAtOutputCoords:generic", texName,
             <<outTexShape[1], outTexShape[2],
               IF broadcast THEN sizeFromShape(inTexShape) ELSE 0,
               outTexShape[2], inTexShape[2], inTexShape[1]>>)>>

getSamplerAtOutputCoords(texName, inTexShape, outTexShape, broadcast) ==
  IF arraysEqual(inTexShape, outTexShape)
    THEN <<Tok("getSamplerAtOutputCoords:resultUV", texName, <<>>)>>
  ELSE LET inSize == sizeFromShape(inTexShape)
       IN  <<Tok("getSamplerAtOutputCoords:generic", texName,
                 <<outTexShape[1], outTexShape[2],
                   IF broadcast THEN inSize ELSE 0,
                   inTexShape[2], inTexShape[2], inTexShape[1]>>)>>

(***************************************************************************)
(* The decoder of the output's coordinates.                                *)
(***************************************************************************)
getOutput1DCoords(shape, texShape) ==
  IF texShape[1] = 1
    THEN <<Tok("getOutput1DCoords:row", "", <<texShape[2]>>)>>
  ELSE IF texShape[2] = 1
    THEN <<Tok("getOutput1DCoords:column", "", <<texShape[1]>>)>>
  ELSE <<Tok("getOutput1DCoords:generic", "", <<texShape[1], texShape[2]>>)>>

\* getOutput2DCoords whose n x 1 and 1 x n branches return each other's value.
getOutput2DCoords_swapped(shape, texShape) ==
  IF arraysEqual(shape, texShape)
    THEN <<Tok("getOutput2DCoords:equal", "", <<texShape[1], texShape[2]>>)>>
  ELSE IF shape[2] = 1
    THEN <<Tok("getOutput2DCoords:0index", "", <<texShape[1], texShape[2]>>)>>
  ELSE IF shape[1] = 1
    THEN <<Tok("getOutput2DCoords:index0", "", <<texShape[1], texShape[2]>>)>>
  ELSE <<Tok("getOutput2DCoords:generic", "",
             <<texShape[1], texShape[2], shape[2]>>)>>

getOutput2DCoords(shape, texShape) ==
  IF arraysEqual(shape, texShape)
    THEN <<Tok("getOutput2DCoords:equal", "", <<texShape[1], texShape[2]>>)>>
  ELSE IF shape[2] = 1
    THEN <<Tok("getOutput2DCoords:index0", "", <<texShape[1], texShape[2]>>)>>
  ELSE IF shape[1] = 1
    THEN <<Tok("getOutput2DCoords:0index", "", <<texShape[1], texShape[2]>>)>>
  ELSE <<Tok("getOutput2DCoords:generic", "",
             <<texShape[1], texShape[2], shape[2]>>)>>

getOutput3DCoords(shape, texShape) ==
  LET stride0 == shape[2] * shape[3]
      stride1 == shape[3]
  IN  <<Tok("getOutput3DCoords", "",
            <<texShape[1], texShape[2], stride0, stride1>>)>>

getOutput4DCoords(shape, texShape) ==
  LET stride2 == shape[4]
      stride1 == shape[3] * stride2
      stride0 == shape[2] * stride1
  IN  <<Tok("getOutput4DCoords", "",
            <<texShape[1], texShape[2], stride0, stride1, stride2>>)>>

(***************************************************************************)
(* What the generated GLSL computes. A texture coordinate is a pair of     *)
(* fractions, x and y each <<numerator, denominator>>; all the integers    *)
(* involved are non-negative, where GLSL's int division and int() both     *)
(* round down.                                                             *)
(***************************************************************************)
vec2(x, y) == [x |-> x, y |-> y]

halfCR == vec2(<<1, 2>>, <<1, 2>>)

\* (float(i) + 0.5) / n.0
HalfTexel(i, n) == <<2 * i + 1, 2 * n>>

\* (vec2(texC, texR) + halfCR) / vec2(numC, numR)
CenterUV(texC, texR, numC, numR) == vec2(HalfTexel(texC, numC), HalfTexel(texR, numR))

\* int(f * n.0) for the fraction f
IntOfScaled(f, n) == (f[1] * n) \div f[2]

UVfrom1D(texNumR, texNumC, index) ==
  LET texR == index \div texNumC
      texC == index - texR * texNumC
  IN  CenterUV(texC, texR, texNumC, texNumR)

UVfrom2D(texNumR, texNumC, numC, row, col) ==
  LET index == row * numC + col
      texR == index \div texNumC
      texC == index - texR * texNumC
  IN  CenterUV(texC, texR, texNumC, texNumR)

UVfrom3D(texNumR, texNumC, stride0, stride1, row, col, depth) ==
  LET index == row * stride0 + col * stride1 + depth
      texR == index \div texNumC
      texC == index - texR * texNumC
  IN  CenterUV(texC, texR, texNumC, texNumR)

UVfrom4D(texNumR, texNumC, stride0, stride1, stride2, row, col, depth, depth2) ==
  LET index == row * stride0 + col * stride1 + depth * stride2 + depth2
      texR == index \div texNumC
      texC == index - texR * texNumC
  IN  CenterUV(texC, texR, texNumC, texNumR)

\* The coordinate at which get<Name>(a[1], ..) and get<Name>Flat(a[1]), as
\* the token t spells them, call sample().
SamplerUV(t, a) ==
  LET n == t.nums
  IN  CASE t.k = "getSamplerScalar" -> halfCR
        [] t.k = "getSampler1D:texel" -> halfCR
        [] t.k = "getSampler1D:column" -> vec2(<<1, 2>>, HalfTexel(a[1], n[1]))
        [] t.k = "getSampler1D:row" -> vec2(HalfTexel(a[1], n[1]), <<1, 2>>)
        [] t.k = "getSampler1D:UVfrom1D" -> UVfrom1D(n[1], n[2], a[1])
        [] t.k = "getSampler2D:equal" -> CenterUV(a[2], a[1], n[2], n[1])
        [] t.k = "getSampler2D:column:col" ->
             vec2(<<1, 2>>, HalfTexel(a[2], n[1]))
        [] t.k = "getSampler2D:column:row" ->
             vec2(<<1, 2>>, HalfTexel(a[1], n[1]))
        [] t.k = "getSampler2D:column:index" ->
             vec2(<<1, 2>>, HalfTexel(a[1] * n[2] + a[2], n[1]))
        [] t.k = "getSampler2D:row" ->
             vec2(HalfTexel(a[1] * n[2] + a[2], n[1]), <<1, 2>>)
        [] t.k = "getSampler2D:UVfrom2D" ->
             UVfrom2D(n[1], n[2], n[3], a[1], a[2])
        [] t.k = "getSampler3D:stride" ->
             CenterUV(a[2] * n[3] + a[3], a[1], n[2], n[1])
        [] t.k = "getSampler3D:UVfrom3D" ->
             UVfrom3D(n[1], n[2], n[3], n[4], a[1], a[2], a[3])
        [] t.k = "getSampler4D:stride" ->
             CenterUV(a[2] * n[3] + a[3] * n[4] + a[4], a[1], n[2], n[1])
        [] t.k = "getSampler4D:UVfrom4D" ->
             UVfrom4D(n[1], n[2], n[3], n[4], n[5], a[1], a[2], a[3], a[4])
        [] t.k = "getSamplerFlat:texel" -> halfCR
        [] t.k = "getSamplerFlat:column" ->
             vec2(<<1, 2>>, HalfTexel(a[1], n[1]))
        [] t.k = "getSamplerFlat:row" -> vec2(HalfTexel(a[1], n[1]), <<1, 2>>)
        [] t.k = "getSamplerFlat:generic" ->
             LET texR == a[1] \div n[2]
                 texC == a[1] - texR * n[2]
             IN  CenterUV(texC, texR, n[2], n[1])

\* resultUV of the fragment that writes texel (r, c) of a rows x cols output.
ResultUV(r, c, rows, cols) == CenterUV(c, r, cols, rows)

\* ivec2(resultUV.yx * vec2(rows, cols)), as <<.x, .y>>
ResTexRC(resultUV, rows, cols) ==
  <<IntOfScaled(resultUV.y, rows), IntOfScaled(resultUV.x, cols)>>

\* The coordinate at which get<Name>AtOutCoords(), as the token t spells it,
\* calls sample().
AtOutCoordsUV(t, resultUV) ==
  LET n == t.nums
  IN  CASE t.k = "getSamplerAtOutputCoords:resultUV" -> resultUV
        [] t.k = "getSamplerAtOutputCoords:generic" ->
             LET resTexRC == ResTexRC(resultUV, n[1], n[2])
                 index0 == resTexRC[1] * n[2] + resTexRC[2]
                 index == IF n[3] = 0 THEN index0
                          ELSE index0 - (index0 \div n[3]) * n[3]
                 texR == index \div n[4]
                 texC == index - texR * n[4]
             IN  CenterUV(texC, texR, n[5], n[6])

\* What getOutputCoords(), as the token t spells it, returns: the sequence of
\* the components of its int, ivec2, ivec3 or ivec4.
OutputCoords(t, resultUV) ==
  LET n == t.nums
      resTexRC == ResTexRC(resultUV, n[1], n[2])
      index == resTexRC[1] * n[2] + resTexRC[2]
  IN  CASE t.k = "getOutput1DCoords:row" -> <<IntOfScaled(resultUV.x, n[1])>>
        [] t.k = "getOutput1DCoords:column" -> <<IntOfScaled(resultUV.y, n[1])>>
        [] t.k = "getOutput1DCoords:generic" -> <<index>>
        [] t.k = "getOutput2DCoords:equal" -> resTexRC
        [] t.k = "getOutput2DCoords:index0" -> <<index, 0>>
        [] t.k = "getOutput2DCoords:0index" -> <<0, index>>
        [] t.k = "getOutput2DCoords:generic" ->
             LET r == index \div n[3]
                 c == index - r * n[3]
             IN  <<r, c>>
        [] t.k = "getOutput3DCoords" ->
             LET r == index \div n[3]
                 index1 == index - r * n[3]
                 c == index1 \div n[4]
                 d == index1 - c * n[4]
             IN  <<r, c, d>>
        [] t.k = "getOutput4DCoords" ->
             LET r == index \div n[3]
                 index1 == index - r * n[3]
                 c == index1 \div n[4]
                 index2 == index1 - c * n[4]
                 d == index2 \div n[5]
                 d2 == index2 - d * n[5]
             IN  <<r, c, d, d2>>

\* The texel <<row, column>> of a rows x cols texture in which the
\* coordinate uv lies: the one texture2D(texture, uv) reads.
TexelAt(uv, texShape) ==
  <<IntOfScaled(uv.y, texShape[1]), IntOfScaled(uv.x, texShape[2])>>

(***************************************************************************)
(* Numbers of the codec. The shader's floats are modelled as exact         *)
(* rationals (the rounding of the GPU's float arithmetic is not modelled). *)
(* A natural number is the sequence of its digits in base LimbBase, least  *)
(* significant first and without leading zeros, so that no intermediate    *)
(* result exceeds what the model checker's integers hold; a float is NaN   *)
(* or a fraction of two naturals with a sign. The integer part of a float   *)
(* is searched for in 0 .. MaxFloor, which holds every integer part the    *)
(* codec takes of a value in its range.                                    *)
(***************************************************************************)
RECURSIVE Big(_)
Big(n) == IF n = 0 THEN <<>> ELSE <<n % LimbBase>> \o Big(n \div LimbBase)

RECURSIVE BigAddC(_, _, _)
BigAddC(x, y, carry) ==
  IF Len(x) = 0 /\ Len(y) = 0 THEN Big(carry)
  ELSE LET dx == IF Len(x) = 0 THEN 0 ELSE Head(x)
           dy == IF Len(y) = 0 THEN 0 ELSE Head(y)
           t == dx + dy + carry
       IN  <<t % LimbBase>>
             \o BigAddC(IF Len(x) = 0 THEN x ELSE Tail(x),
                        IF Len(y) = 0 THEN y ELSE Tail(y), t \div LimbBase)

RECURSIVE Trim(_)
Trim(x) ==
  IF Len(x) = 0 THEN x
  ELSE IF x[Len(x)] = 0 THEN Trim(SubSeq(x, 1, Len(x) - 1))
  ELSE x

BigAdd(x, y) == Trim(BigAddC(x, y, 0))

\* x - y for x >= y
RECURSIVE BigSubB(_, _, _)
BigSubB(x, y, borrow) ==
  IF Len(x) = 0 THEN <<>>
  ELSE LET dy == IF Len(y) = 0 THEN 0 ELSE Head(y)
           t == Head(x) - dy - borrow
       IN  <<IF t < 0 THEN t + LimbBase ELSE t>>
             \o BigSubB(Tail(x), IF Len(y) = 0 THEN y ELSE Tail(y),
                        IF t < 0 THEN 1 ELSE 0)

BigSub(x, y) == Trim(BigSubB(x, y, 0))

\* x * k for a digit k
RECURSIVE BigMulDigitC(_, _, _)
BigMulDigitC(x, k, carry) ==
  IF Len(x) = 0 THEN Big(carry)
  ELSE LET t == Head(x) * k + carry
       IN  <<t % LimbBase>> \o BigMulDigitC(Tail(x), k, t \div LimbBase)

BigMulDigit(x, k) == Trim(BigMulDigitC(x, k, 0))

RECURSIVE BigMul(_, _)
BigMul(x, y) ==
  IF Len(y) = 0 \/ Len(x) = 0 THEN <<>>
  ELSE Trim(BigAddC(BigMulDigitC(x, Head(y), 0),
                    LET r == BigMul(x, Tail(y))
                    IN  IF Len(r) = 0 THEN r ELSE <<0>> \o r, 0))

\* -1, 0 or 1 as x is less than, equal to or greater than y
RECURSIVE BigCmp(_, _)
BigCmp(x, y) ==
  IF Len(x) # Len(y) THEN (IF Len(x) < Len(y) THEN -1 ELSE 1)
  ELSE IF Len(x) = 0 THEN 0
  ELSE IF x[Len(x)] # y[Len(y)] THEN (IF x[Len(x)] < y[Len(y)] THEN -1 ELSE 1)
  ELSE BigCmp(SubSeq(x, 1, Len(x) - 1), SubSeq(y, 1, Len(y) - 1))

\* the integer part of x / y, for y > 0 and x / y below MaxFloor + 1
BigDiv(x, y) ==
  Big(CHOOSE q \in 0 .. MaxFloor :
        /\ BigCmp(BigMulDigit(y, q), x) <= 0
        /\ BigCmp(x, BigMulDigit(y, q + 1)) < 0)

\* the value of a natural below 2^31
RECURSIVE Small(_)
Small(x) == IF Len(x) = 0 THEN 0 ELSE Head(x) + LimbBase * Small(Tail(x))

Float(neg, num, den) ==
  [nan |-> FALSE, neg |-> neg /\ Len(num) > 0, num |-> num, den |-> den]

NaN == [nan |-> TRUE, neg |-> FALSE, num |-> <<>>, den |-> <<1>>]

\* the float n.0, and the float n / d
FromInt(n) == Float(n < 0, Big(IF n < 0 THEN -n ELSE n), <<1>>)

Frac(n, d) == Float(n < 0, Big(IF n < 0 THEN -n ELSE n), Big(d))

Neg(x) == Float(~x.neg, x.num, x.den)

Add(x, y) ==
  LET a == BigMul(x.num, y.den)
      b == BigMul(y.num, x.den)
      d == BigMul(x.den, y.den)
  IN  IF x.neg = y.neg THEN Float(x.neg, BigAdd(a, b), d)
      ELSE IF BigCmp(a, b) >= 0 THEN Float(x.neg, BigSub(a, b), d)
      ELSE Float(y.neg, BigSub(b, a), d)

Sub(x, y) == Add(x, Neg(y))

Mul(x, y) == Float(x.neg # y.neg, BigMul(x.num, y.num), BigMul(x.den, y.den))

\* x / y for y # 0
Div(x, y) == Float(x.neg # y.neg, BigMul(x.num, y.den), BigMul(x.den, y.num))

Less(x, y) == LET d == Sub(x, y) IN d.neg

LessEq(x, y) == ~Less(y, x)

Equal(x, y) == ~x.nan /\ ~y.nan /\ Len(Sub(x, y).num) = 0

Abs(x) == Float(FALSE, x.num, x.den)

\* GLSL floor and fract
floor(x) ==
  LET q == BigDiv(x.num, x.den)
      exact == BigCmp(BigMul(q, x.den), x.num) = 0
  IN  IF ~x.neg \/ exact THEN Float(x.neg, q, <<1>>)
      ELSE Float(TRUE, BigAdd(q, <<1>>), <<1>>)

fract(x) == Sub(x, floor(x))

dot2(x, y) == Add(Mul(x[1], y[1]), Mul(x[2], y[2]))

dot4(x, y) ==
  Add(Add(Add(Mul(x[1], y[1]), Mul(x[2], y[2])), Mul(x[3], y[3])),
      Mul(x[4], y[4]))

(***************************************************************************)
(* The quantized codec: the functions of the two unsigned-byte snippets,   *)
(* computed as the shader computes them. A texel of an unsigned-byte       *)
(* texture is four bytes: writing a colour keeps, of each channel clamped  *)
(* to [0, 1], the nearest multiple of 1/255, and texture2D returns the     *)
(* bytes over 255. tex_util.BYTE_NAN_VALUE is not among the sources; the   *)
(* sentinel is the channel value of one byte, nanValue, fixed for a run.   *)
(***************************************************************************)
minValue == FromInt(FLOAT_MIN)

maxValue == FromInt(FLOAT_MAX)

range == Div(Sub(maxValue, minValue), FromInt(255))

dotRange == <<FromInt(1), range>>

floatDeltas ==
  <<FromInt(1),
    Div(FromInt(1), FromInt(255)),
    Div(FromInt(1), Mul(FromInt(255), FromInt(255))),
    Div(FromInt(1), Mul(Mul(FromInt(255), FromInt(255)), FromInt(255)))>>

recipRange == <<Div(FromInt(1), range), Div(FromInt(1), range)>>

NanBytes == 0 .. 255

BYTE_NAN_VALUE == Frac(nanValue, 255)

clamp01(x) ==
  IF x.neg THEN FromInt(0) ELSE IF Less(FromInt(1), x) THEN FromInt(1) ELSE x

\* the bytes a colour is stored as
writeTexel(color) ==
  [i \in 1 .. 4 |->
     Small(floor(Add(Mul(clamp01(color[i]), FromInt(255)), Frac(1, 2))).num)]

texture2D(bytes) == [i \in 1 .. 4 |-> Frac(bytes[i], 255)]

\* gl_FragColor after setOutput(decodedValue)
setOutput(decodedValue) ==
  IF decodedValue.nan THEN [i \in 1 .. 4 |-> BYTE_NAN_VALUE]
  ELSE LET a == dot2(<<decodedValue, Neg(minValue)>>, recipRange)
           b == Mul(fract(a), FromInt(255))
           c == Mul(fract(b), FromInt(255))
           d == Mul(fract(c), FromInt(255))
       IN  [i \in 1 .. 4 |-> Div(floor(<<a, b, c, d>>[i]), FromInt(255))]

\* the value of sample(texture, uv) for the texel at uv
sample(bytes) ==
  LET sampleValue == texture2D(bytes)
  IN  IF \A i \in 1 .. 4 : Equal(sampleValue[i], BYTE_NAN_VALUE) THEN NaN
      ELSE LET encValue ==
                 [i \in 1 .. 4 |->
                    floor(Add(Mul(sampleValue[i], FromInt(255)), Frac(1, 2)))]
               decodedValue == dot4(encValue, floatDeltas)
           IN  dot2(<<minValue, decodedValue>>, dotRange)

CodecIdle ==
  /\ nanValue = 0
  /\ value = NaN
  /\ texel = <<>>
  /\ decoded = <<>>

(***************************************************************************)
(* The outcome of a function that may throw: the text it returns, or the   *)
(* Error it throws (and then no text).                                     *)
(***************************************************************************)
Returned(text) == [ok |-> TRUE, text |-> text, error |-> ""]

Thrown(message) == [ok |-> FALSE, text |-> <<>>, error |-> message]

getInputSamplingSnippet(inInfo, outShapeInfo, broadcast) ==
  LET shape == inInfo.shapeInfo.logicalShape
      texShape == inInfo.shapeInfo.texShape
      outTexShape == outShapeInfo.texShape
      atOut == IF \/ broadcast
                  \/ arraysEqual(inInfo.shapeInfo.logicalShape,
                                 outShapeInfo.logicalShape)
                 THEN getSamplerAtOutputCoords(inInfo.name, texShape,
                                               outTexShape, broadcast)
               ELSE <<>>
      rest == atOut \o getSamplerFlat(inInfo.name, texShape)
  IN  CASE Len(shape) = 0 ->
             Returned(getSamplerScalar(inInfo.name) \o rest)
        [] Len(shape) = 1 ->
             Returned(getSampler1D(inInfo.name, texShape) \o rest)
        [] Len(shape) = 2 ->
             Returned(getSampler2D(inInfo.name, shape, texShape) \o rest)
        [] Len(shape) = 3 ->
             Returned(getSampler3D(inInfo.name, shape, texShape) \o rest)
        [] Len(shape) = 4 ->
             Returned(getSampler4D(inInfo.name, shape, texShape) \o rest)
        [] OTHER -> Thrown("-D input sampling is not yet supported")

\* getOutputSamplingSnippet whose switch has no default: a rank it does not
\* know yields no decoder instead of an Error.
getOutputSamplingSnippet_noDefault(outputShapeInfo) ==
  LET shape == outputShapeInfo.logicalShape
      texShape == outputShapeInfo.texShape
  IN  CASE Len(shape) = 1 -> Returned(getOutput1DCoords(shape, texShape))
        [] Len(shape) = 2 -> Returned(getOutput2DCoords(shape, texShape))
        [] Len(shape) = 3 -> Returned(getOutput3DCoords(shape, texShape))
        [] Len(shape) = 4 -> Returned(getOutput4DCoords(shape, texShape))
        [] OTHER -> Returned(<<>>)

getOutputSamplingSnippet(outputShapeInfo) ==
  LET shape == outputShapeInfo.logicalShape
      texShape == outputShapeInfo.texShape
  IN  CASE Len(shape) = 0 -> Returned(<<>>)
        [] Len(shape) = 1 -> Returned(getOutput1DCoords(shape, texShape))
        [] Len(shape) = 2 -> Returned(getOutput2DCoords(shape, texShape))
        [] Len(shape) = 3 -> Returned(getOutput3DCoords(shape, texShape))
        [] Len(shape) = 4 -> Returned(getOutput4DCoords(shape, texShape))
        [] OTHER -> Thrown("-D output sampling is not yet supported")

(***************************************************************************)
(* env is ENV.get('WEBGL_FLOAT_TEXTURE_ENABLED'), read at each call.       *)
(***************************************************************************)
getSampleSnippet ==
  IF env THEN FLOAT_TEXTURE_SAMPLE_SNIPPET
  ELSE UNSIGNED_BYTE_TEXTURE_SAMPLE_SNIPPET

\* getSetOutputSnippet that keeps module-level state: once another shader has
\* been made it no longer consults the environment.
getSetOutputSnippet_stale(outputShapeInfo) ==
  IF env \/ others > 0 THEN FLOAT_TEXTURE_SETOUTPUT_SNIPPET
  ELSE UNSIGNED_BYTE_TEXTURE_SETOUTPUT_SNIPPET

getSetOutputSnippet(outputShapeInfo) ==
  IF env THEN FLOAT_TEXTURE_SETOUTPUT_SNIPPET
  ELSE UNSIGNED_BYTE_TEXTURE_SETOUTPUT_SNIPPET

uniformDeclaration(x) == <<Tok("uniform sampler2D", x.name, <<>>)>>

\* makeShader with the two codec snippets joined in the other order.
makeShader_codecSwapped(inputsInfo, outputShapeInfo, userCode, broadcast) ==
  LET inputPrefixSnippet == Join(Map(uniformDeclaration, inputsInfo), <<NL>>)
      sampling == [i \in 1..Len(inputsInfo) |->
                     getInputSamplingSnippet(inputsInfo[i], outputShapeInfo,
                                             broadcast)]
      failed == {i \in 1..Len(inputsInfo) : ~sampling[i].ok}
      inputSamplingSnippet ==
        Join([i \in 1..Len(inputsInfo) |-> sampling[i].text], <<NL>>)
      outputSamplingSnippet == getOutputSamplingSnippet(outputShapeInfo)
      source == Join(<<SHADER_PREFIX, getSetOutputSnippet(outputShapeInfo),
                       getSampleSnippet, inputPrefixSnippet,
                       inputSamplingSnippet, outputSamplingSnippet.text,
                       userCode>>, <<NL>>)
  IN  IF failed # {}
        THEN sampling[CHOOSE i \in failed : \A j \in failed : i <= j]
      ELSE IF ~outputSamplingSnippet.ok THEN outputSamplingSnippet
      ELSE Returned(source)

makeShader(inputsInfo, outputShapeInfo, userCode, broadcast) ==
  LET sampleSnippet == getSampleSnippet
      inputPrefixSnippet == Join(Map(uniformDeclaration, inputsInfo), <<NL>>)
      sampling == [i \in 1..Len(inputsInfo) |->
                     getInputSamplingSnippet(inputsInfo[i], outputShapeInfo,
                                             broadcast)]
      failed == {i \in 1..Len(inputsInfo) : ~sampling[i].ok}
      inputSamplingSnippet ==
        Join([i \in 1..Len(inputsInfo) |-> sampling[i].text], <<NL>>)
      outputSamplingSnippet == getOutputSamplingSnippet(outputShapeInfo)
      setOutputSnippet == getSetOutputSnippet(outputShapeInfo)
      source == Join(<<SHADER_PREFIX, sampleSnippet, setOutputSnippet,
                       inputPrefixSnippet, inputSamplingSnippet,
                       outputSamplingSnippet.text, userCode>>, <<NL>>)
  IN  IF failed # {}
        THEN sampling[CHOOSE i \in failed : \A j \in failed : i <= j]
      ELSE IF ~outputSamplingSnippet.ok THEN outputSamplingSnippet
      ELSE Returned(source)

(***************************************************************************)
(* The arguments of the observed calls. A descriptor of rank r has the     *)
(* logical shape 2 x ... x 2 on a one-row texture; ranks run past the      *)
(* supported 0..4 up to MaxRank. TextureChannelPackingFormat (ndarray.ts,  *)
(* not part of the sources) has the two members the source names.          *)
(***************************************************************************)
PackingFormats == {"R", "RGBA_1_BY_4"}

ShapeInfo(shape, texShape, format) ==
  [logicalShape |-> shape, texShape |-> texShape,
   textureChannelPackingFormat |-> format]

RankShape(r) == [i \in 1..r |-> 2]

AsmShapeInfos ==
  {ShapeInfo(RankShape(r), <<1, sizeFromShape(RankShape(r))>>, "R") :
     r \in 0..MaxRank}
  \cup {ShapeInfo(<<2>>, <<2, 1>>, "RGBA_1_BY_4")}

InputNames == [i \in 1..(MaxInputs + 1) |-> <<"a", "b", "c", "d", "e">>[i]]

InputLists ==
  UNION {[1..n -> AsmShapeInfos] : n \in 0..MaxInputs}

InputsInfo(infos) ==
  [i \in 1..Len(infos) |-> [name |-> InputNames[i], shapeInfo |-> infos[i]]]

UserCodes ==
  {<<Tok("void main() { setOutput(1.0); }", "", <<>>)>>,
   <<Tok("void main() {", "", <<>>), NL, Tok("}", "", <<>>)>>}

Args ==
  [inputsInfo : {InputsInfo(l) : l \in InputLists},
   outputShapeInfo : AsmShapeInfos,
   userCode : UserCodes,
   broadcast : BOOLEAN]

(***************************************************************************)
(* The assembler's state machine: two calls of makeShader with the same    *)
(* arguments, with other calls and changes of the environment's            *)
(* WEBGL_FLOAT_TEXTURE_ENABLED before and between them. A call is recorded *)
(* with the value the flag had when it ran.                                *)
(***************************************************************************)
NoCall == [called |-> FALSE, env |-> FALSE, res |-> Thrown("")]

Call(a) ==
  [called |-> TRUE, env |-> env,
   res |-> makeShader(a.inputsInfo, a.outputShapeInfo, a.userCode, a.broadcast)]

NoAccess ==
  [fn |-> "", path |-> "", a |-> <<>>, out |-> ShapeInfo(<<>>, <<1, 1>>, "R"),
   broadcast |-> FALSE, uv |-> halfCR, coords |-> <<>>]

AddrIdle ==
  /\ desc = ShapeInfo(<<>>, <<1, 1>>, "R")
  /\ acc = NoAccess

Init ==
  /\ env \in BOOLEAN
  /\ args \in Args
  /\ first = NoCall
  /\ second = NoCall
  /\ others = 0
  /\ AddrIdle
  /\ CodecIdle

FirstCall ==
  /\ ~first.called
  /\ first' = Call(args)
  /\ UNCHANGED <<env, args, second, others, addrVars, codecVars>>

SecondCall ==
  /\ first.called
  /\ ~second.called
  /\ second' = Call(args)
  /\ UNCHANGED <<env, args, first, others, addrVars, codecVars>>

OtherCall ==
  /\ first.called
  /\ ~second.called
  /\ others < MaxOther
  /\ Call([args EXCEPT !.broadcast = ~@]).called
  /\ others' = others + 1
  /\ UNCHANGED <<env, args, first, second, addrVars, codecVars>>

SetEnv ==
  /\ first.called
  /\ ~second.called
  /\ env' = ~env
  /\ UNCHANGED <<args, first, second, others, addrVars, codecVars>>

Next == FirstCall \/ SecondCall \/ OtherCall \/ SetEnv

Spec == Init /\ [][Next]_vars

(***************************************************************************)
(* The addressing state machine: one tensor, as an input and as the output *)
(* of a shader, and the accesses a shader makes through the generated      *)
(* functions. acc records the access made: the function, its arguments a   *)
(* (for the functions of the current fragment, the output texel <<r, c>>)  *)
(* and the coordinate it samples or the coordinates it returns. Logical    *)
(* shapes have rank 0..4, positive extents up to MaxDim and at most        *)
(* MaxNumel elements; a texture holds all the elements and at most MaxPad  *)
(* texels more.                                                            *)
(***************************************************************************)
LogicalShapes ==
  {sh \in UNION {[1..r -> 1..MaxDim] : r \in 0..4} :
     sizeFromShape(sh) <= MaxNumel}

TexShapesFor(n) ==
  {t \in (1..(n + MaxPad)) \X (1..(n + MaxPad)) :
     t[1] * t[2] >= n /\ t[1] * t[2] <= n + MaxPad}

AddrDescs ==
  UNION {{ShapeInfo(sh, t, "R") : t \in TexShapesFor(sizeFromShape(sh))} :
                sh \in LogicalShapes}

OutTexShapes == {t \in (1..MaxOut) \X (1..MaxOut) : t[1] * t[2] <= MaxOut}

InRange(shape) ==
  {c \in [1..Len(shape) -> 0..(MaxDim - 1)] :
     \A k \in 1..Len(shape) : c[k] < shape[k]}

Texels(texShape) == (0..(texShape[1] - 1)) \X (0..(texShape[2] - 1))

\* The functions generated for the tensor d as an input of a shader whose
\* output is out: get<Name>, get<Name>AtOutCoords when it is generated, and
\* get<Name>Flat.
Accessors(d, out, broadcast) ==
  getInputSamplingSnippet([name |-> "x", shapeInfo |-> d], out, broadcast).text

Access(fn, t, a, out, broadcast, uv, coords) ==
  [fn |-> fn, path |-> t.k, a |-> a, out |-> out, broadcast |-> broadcast,
   uv |-> uv, coords |-> coords]

AsmIdle ==
  /\ env = FALSE
  /\ args = [inputsInfo |-> <<>>,
             outputShapeInfo |-> ShapeInfo(<<>>, <<1, 1>>, "R"),
             userCode |-> <<>>, broadcast |-> FALSE]
  /\ first = NoCall
  /\ second = NoCall
  /\ others = 0

AddrInit ==
  /\ AsmIdle
  /\ CodecIdle
  /\ desc \in AddrDescs
  /\ acc = NoAccess

Get ==
  /\ acc = NoAccess
  /\ \E a \in InRange(desc.logicalShape) :
       LET t == Accessors(desc, desc, FALSE)[1]
       IN  acc' = Access("get", t, a, desc, FALSE, SamplerUV(t, a), <<>>)
  /\ UNCHANGED <<asmVars, desc, codecVars>>

GetFlat ==
  /\ acc = NoAccess
  /\ \E i \in 0..(sizeFromShape(desc.logicalShape) - 1) :
       LET fns == Accessors(desc, desc, FALSE)
           t == fns[Len(fns)]
       IN  acc' = Access("getFlat", t, <<i>>, desc, FALSE,
                         SamplerUV(t, <<i>>), <<>>)
  /\ UNCHANGED <<asmVars, desc, codecVars>>

GetOutputCoords ==
  /\ acc = NoAccess
  /\ Len(desc.logicalShape) > 0
  /\ \E rc \in Texels(desc.texShape) :
       LET t == getOutputSamplingSnippet(desc).text[1]
       IN  acc' = Access("getOutputCoords", t, rc, desc, FALSE, halfCR,
                         OutputCoords(t, ResultUV(rc[1], rc[2], desc.texShape[1],
                                                  desc.texShape[2])))
  /\ UNCHANGED <<asmVars, desc, codecVars>>

\* The output has the input's logical shape, or, with broadcast, is a vector
\* of as many elements as its texture has texels.
GetAtOutCoords ==
  /\ acc = NoAccess
  /\ \E broadcast \in BOOLEAN :
       \E t \in IF broadcast THEN OutTexShapes
                ELSE TexShapesFor(sizeFromShape(desc.logicalShape)) :
         LET out == ShapeInfo(IF broadcast THEN <<t[1] * t[2]>>
                              ELSE desc.logicalShape, t, "R")
             fns == Accessors(desc, out, broadcast)
         IN  /\ Len(fns) = 3
             /\ \E rc \in Texels(t) :
                  acc' = Access("getAtOutCoords", fns[2], rc, out, broadcast,
                                AtOutCoordsUV(fns[2],
                                              ResultUV(rc[1], rc[2], t[1], t[2])),
                                <<>>)
  /\ UNCHANGED <<asmVars, desc, codecVars>>

\* A shader may call get<Name> and get<Name>Flat with any integers: the
\* generated functions check nothing. The arguments here are 0..MaxArg each,
\* within the logical shape or not.
GetUnchecked ==
  /\ acc = NoAccess
  /\ LET fns == Accessors(desc, desc, FALSE)
     IN  \/ \E a \in [1..Len(desc.logicalShape) -> 0..MaxArg] :
              acc' = Access("getUnchecked", fns[1], a, desc, FALSE,
                            SamplerUV(fns[1], a), <<>>)
         \/ \E i \in 0..MaxArg :
              acc' = Access("getFlatUnchecked", fns[Len(fns)], <<i>>, desc,
                            FALSE, SamplerUV(fns[Len(fns)], <<i>>), <<>>)
  /\ UNCHANGED <<asmVars, desc, codecVars>>

AddrNext ==
  Get \/ GetFlat \/ GetOutputCoords \/ GetAtOutCoords \/ GetUnchecked

SpecAddr == AddrInit /\ [][AddrNext]_vars

(***************************************************************************)
(* The codec state machine: a shader writes one value with setOutput and a *)
(* later shader reads the texel back with sample. The values are NaN and   *)
(* the points of a grid of ValueDen steps over [FLOAT_MIN, FLOAT_MAX].     *)
(***************************************************************************)
Values ==
  {Frac(FLOAT_MIN * ValueDen + (FLOAT_MAX - FLOAT_MIN) * j, ValueDen) :
     j \in 0 .. ValueDen} \cup {NaN}

CodecInit ==
  /\ AsmIdle
  /\ AddrIdle
  /\ nanValue \in NanBytes
  /\ value \in Values
  /\ texel = <<>>
  /\ decoded = <<>>

SetOutput ==
  /\ texel = <<>>
  /\ texel' = writeTexel(setOutput(value))
  /\ UNCHANGED <<asmVars, addrVars, nanValue, value, decoded>>

Sample ==
  /\ texel # <<>>
  /\ decoded = <<>>
  /\ decoded' = <<sample(texel)>>
  /\ UNCHANGED <<asmVars, addrVars, nanValue, value, texel>>

CodecNext == SetOutput \/ Sample

SpecCodec == CodecInit /\ [][CodecNext]_vars

(***************************************************************************)
(* The claims about the assembler.                                         *)
(***************************************************************************)
Calls == {c \in {first, second} : c.called}

Sum(f(_), n) == LET RECURSIVE S(_)
                     S(i) == IF i = 0 THEN 0 ELSE f(i) + S(i - 1)
                 IN  S(n)

\* The text of one line break between each two of the blocks bs and nowhere
\* else: block i starts right after the blocks before it and their breaks.
BlockStart(bs, i) == 1 + Sum(LAMBDA j : Len(bs[j]) + 1, i - 1)

SeparatedBlocks(text, bs) ==
  /\ Len(text) = Sum(LAMBDA j : Len(bs[j]), Len(bs))
                 + (IF Len(bs) = 0 THEN 0 ELSE Len(bs) - 1)
  /\ \A i \in 1..Len(bs) :
       /\ \A k \in 1..Len(bs[i]) : text[BlockStart(bs, i) + k - 1] = bs[i][k]
       /\ i < Len(bs) => text[BlockStart(bs, i + 1) - 1] = NL

CodecDecode(e) == IF e THEN FLOAT_TEXTURE_SAMPLE_SNIPPET
                  ELSE UNSIGNED_BYTE_TEXTURE_SAMPLE_SNIPPET

CodecEncode(e) == IF e THEN FLOAT_TEXTURE_SETOUTPUT_SNIPPET
                  ELSE UNSIGNED_BYTE_TEXTURE_SETOUTPUT_SNIPPET

\* C1: whenever makeShader returns, its text is the fixed prefix, the codec's
\* sample snippet, the codec's setOutput snippet, one uniform declaration per
\* input in list order, the inputs' addressing snippets in list order, the
\* output-coordinate decoder and the caller's body, in this order, each two
\* separated by one line break.
C1_BlockOrder ==
  \A c \in Calls :
    c.res.ok =>
      LET text == c.res.text
          n == Len(args.inputsInfo)
          uniforms == [i \in 1..n |->
                         <<Tok("uniform sampler2D", args.inputsInfo[i].name,
                               <<>>)>>]
          addressing == [i \in 1..n |->
                           getInputSamplingSnippet(args.inputsInfo[i],
                                                   args.outputShapeInfo,
                                                   args.broadcast).text]
          breaks == IF n = 0 THEN 0 ELSE n - 1
          ulen == Sum(LAMBDA j : Len(uniforms[j]), n) + breaks
          alen == Sum(LAMBDA j : Len(addressing[j]), n) + breaks
          ublock == SubSeq(text, 7, 6 + ulen)
          ablock == SubSeq(text, 8 + ulen, 7 + ulen + alen)
      IN  /\ SeparatedBlocks(ublock, uniforms)
          /\ SeparatedBlocks(ablock, addressing)
          /\ SeparatedBlocks(text,
               <<SHADER_PREFIX, CodecDecode(c.env), CodecEncode(c.env),
                 ublock, ablock,
                 getOutputSamplingSnippet(args.outputShapeInfo).text,
                 args.userCode>>)

C1_Witness ==
  /\ first.called
  /\ first.res.ok
  /\ Len(args.inputsInfo) = 2
  /\ args.inputsInfo[1].shapeInfo # args.inputsInfo[2].shapeInfo
  /\ Len(args.outputShapeInfo.logicalShape) = 2

InputRanks == {Len(args.inputsInfo[i].shapeInfo.logicalShape) :
                 i \in 1..Len(args.inputsInfo)}

AllRanks == InputRanks \cup {Len(args.outputShapeInfo.logicalShape)}

\* C7: makeShader throws, returning no text, exactly when the logical shape
\* of an input or of the output has a rank outside 0..4.
C7_RankError ==
  \A c \in Calls :
    /\ (AllRanks \subseteq 0..4) <=> c.res.ok
    /\ ~c.res.ok =>
         /\ c.res.text = <<>>
         /\ c.res.error \in {"-D input sampling is not yet supported",
                             "-D output sampling is not yet supported"}

C7_Witness ==
  /\ first.called
  /\ ~first.res.ok
  /\ InputRanks \subseteq 0..4
  /\ Len(args.inputsInfo) > 0
  /\ Len(args.outputShapeInfo.logicalShape) > 4

Formats == {args.inputsInfo[i].shapeInfo.textureChannelPackingFormat :
              i \in 1..Len(args.inputsInfo)}
           \cup {args.outputShapeInfo.textureChannelPackingFormat}

\* C8: makeShader throws, returning no text, whenever a shape descriptor
\* asks for a packing format other than "R".
C8_PackingError ==
  \A c \in Calls : (Formats # {"R"}) => (~c.res.ok /\ c.res.text = <<>>)

(***************************************************************************)
(* The claims about addressing.                                            *)
(***************************************************************************)
\* The row-major stride law: stride k is the product of the extents after k.
Stride(shape, k) == sizeFromShape(SubSeq(shape, k + 1, Len(shape)))

FlatIndex(shape, coords) ==
  Sum(LAMBDA k : coords[k] * Stride(shape, k), Len(shape))

RowMajorTexel(i, texShape) == <<i \div texShape[2], i % texShape[2]>>

Numel == sizeFromShape(desc.logicalShape)

Exact == desc.texShape[1] * desc.texShape[2] = Numel

\* C3: for a tensor whose texture has exactly numel texels, get<Name> and
\* get<Name>Flat address, for the element of flat index i, the texel
\* (i div texCols, i mod texCols); over the in-range elements each of them is
\* a bijection onto the texture's texels.
C3_Bijection ==
  Exact =>
    LET fns == Accessors(desc, desc, FALSE)
        byCoords == {TexelAt(SamplerUV(fns[1], a), desc.texShape) :
                       a \in InRange(desc.logicalShape)}
        byIndex == {TexelAt(SamplerUV(fns[Len(fns)], <<i>>), desc.texShape) :
                      i \in 0..(Numel - 1)}
    IN  /\ acc.fn = "get" =>
             TexelAt(acc.uv, desc.texShape)
               = RowMajorTexel(FlatIndex(desc.logicalShape, acc.a), desc.texShape)
        /\ acc.fn = "getFlat" =>
             TexelAt(acc.uv, desc.texShape) = RowMajorTexel(acc.a[1], desc.texShape)
        /\ byCoords = Texels(desc.texShape)
        /\ byIndex = Texels(desc.texShape)
        /\ Cardinality(InRange(desc.logicalShape)) = Numel

C3_Witness ==
  /\ Exact
  /\ acc.fn = "get"
  /\ acc.path = "getSampler4D:UVfrom4D"
  /\ desc.texShape[1] > 1
  /\ TexelAt(acc.uv, desc.texShape)[1] > 0
  /\ TexelAt(acc.uv, desc.texShape)[2] > 0

\* C4: for a tensor of rank 1..4 as the output, at the texel that holds the
\* in-range flat index i, getOutputCoords returns coordinates that lie within
\* the logical shape and recompose to i under the stride law.
C4_RoundTrip ==
  acc.fn = "getOutputCoords" =>
    LET i == acc.a[1] * desc.texShape[2] + acc.a[2]
    IN  i < Numel =>
          /\ Len(acc.coords) = Len(desc.logicalShape)
          /\ \A k \in 1..Len(acc.coords) :
               acc.coords[k] >= 0 /\ acc.coords[k] < desc.logicalShape[k]
          /\ FlatIndex(desc.logicalShape, acc.coords) = i

C4_Witness ==
  /\ acc.fn = "getOutputCoords"
  /\ acc.path = "getOutput2DCoords:index0"
  /\ acc.a[1] * desc.texShape[2] + acc.a[2] = Numel - 1
  /\ Numel > 2
  /\ desc.texShape[2] > 1

FastPaths ==
  {"getSampler1D:texel", "getSampler1D:column", "getSampler1D:row",
   "getSampler2D:equal", "getSampler2D:column:col", "getSampler2D:column:row",
   "getSampler2D:column:index", "getSampler2D:row", "getSampler3D:stride",
   "getSampler4D:stride", "getSamplerFlat:texel", "getSamplerFlat:column",
   "getSamplerFlat:row"}

\* The coordinate the generic path of get<Name> or get<Name>Flat samples.
GenericUV(fn, d, a) ==
  LET sh == d.logicalShape
      tR == d.texShape[1]
      tC == d.texShape[2]
  IN  CASE fn = "getFlat" -> UVfrom1D(tR, tC, a[1])
        [] fn = "get" /\ Len(sh) = 1 -> UVfrom1D(tR, tC, a[1])
        [] fn = "get" /\ Len(sh) = 2 -> UVfrom2D(tR, tC, sh[2], a[1], a[2])
        [] fn = "get" /\ Len(sh) = 3 ->
             UVfrom3D(tR, tC, sh[2] * sh[3], sh[3], a[1], a[2], a[3])
        [] fn = "get" /\ Len(sh) = 4 ->
             UVfrom4D(tR, tC, sh[2] * sh[3] * sh[4], sh[3] * sh[4], sh[4],
                      a[1], a[2], a[3], a[4])

\* C5: whenever a sampler takes a fast path (single texel, single column,
\* single row, shape equal to the texture shape, texCols equal to the leading
\* stride), it addresses for every in-range argument the texel that the
\* generic path addresses for the same descriptor.
C5_FastPath ==
  (acc.fn \in {"get", "getFlat"} /\ acc.path \in FastPaths) =>
    /\ TexelAt(acc.uv, desc.texShape)
         = TexelAt(GenericUV(acc.fn, desc, acc.a), desc.texShape)
    /\ TexelAt(acc.uv, desc.texShape)
         = RowMajorTexel(IF acc.fn = "get"
                           THEN FlatIndex(desc.logicalShape, acc.a)
                         ELSE acc.a[1], desc.texShape)

C5_Witness ==
  /\ acc.fn = "get"
  /\ acc.path = "getSampler2D:column:col"
  /\ ~Exact
  /\ acc.a[2] > 0

\* C6: with broadcast, for a rank-0 input on a 1 x 1 texture,
\* get<Name>AtOutCoords addresses the input's texel (0, 0) at every texel of
\* every output texture.
C6_ScalarBroadcast ==
  (/\ acc.fn = "getAtOutCoords"
   /\ acc.broadcast
   /\ desc.logicalShape = <<>>
   /\ desc.texShape = <<1, 1>>)
    => TexelAt(acc.uv, desc.texShape) = <<0, 0>>

C6_Witness ==
  /\ acc.fn = "getAtOutCoords"
  /\ acc.broadcast
  /\ desc.logicalShape = <<>>
  /\ desc.texShape = <<1, 1>>
  /\ acc.out.texShape = <<2, 3>>
  /\ acc.a = <<1, 2>>

\* The flat index of the output texel that the access acc was made at.
OutIndex == acc.a[1] * acc.out.texShape[2] + acc.a[2]

\* C11: with broadcast and an output texture shape other than the input's,
\* get<Name>AtOutCoords addresses the input texel of the output's flat index
\* reduced modulo the number of elements of the input's logical shape, on
\* every texture that holds the input's elements.
C11_BroadcastModNumel ==
  (/\ acc.fn = "getAtOutCoords"
   /\ acc.broadcast
   /\ desc.texShape # acc.out.texShape)
    => TexelAt(acc.uv, desc.texShape)
         = RowMajorTexel(OutIndex % Numel, desc.texShape)

\* C12: on a 1 x 1 texture, get<Name> of every rank 0..4 and get<Name>Flat
\* sample the coordinate (0.5, 0.5) whatever their arguments are.
C12_SingleTexel ==
  (/\ acc.fn \in {"get", "getFlat", "getUnchecked", "getFlatUnchecked"}
   /\ desc.texShape = <<1, 1>>)
    => acc.uv = halfCR

\* The coordinate get<Name>(getOutputCoords()) samples in the fragment that
\* the access acc was made in.
GetOfOutputCoordsUV ==
  LET t == acc.out.texShape
      coords == OutputCoords(getOutputSamplingSnippet(acc.out).text[1],
                             ResultUV(acc.a[1], acc.a[2], t[1], t[2]))
  IN  SamplerUV(Accessors(desc, acc.out, FALSE)[1], coords)

\* C13: without broadcast, for an input of rank 1..4 with the output's
\* logical shape, both textures having exactly numel texels (of equal shape
\* or not), get<Name>AtOutCoords() addresses at every output texel the input
\* texel that get<Name>(getOutputCoords()) addresses: the one of the element
\* with the output element's flat index.
C13_AtOutCoordsIsGetOfCoords ==
  (/\ acc.fn = "getAtOutCoords"
   /\ ~acc.broadcast
   /\ Len(desc.logicalShape) >= 1
   /\ Exact
   /\ acc.out.texShape[1] * acc.out.texShape[2] = Numel)
    => /\ TexelAt(acc.uv, desc.texShape)
            = TexelAt(GetOfOutputCoordsUV, desc.texShape)
       /\ TexelAt(acc.uv, desc.texShape) = RowMajorTexel(OutIndex, desc.texShape)

C13_Witness ==
  /\ acc.fn = "getAtOutCoords"
  /\ ~acc.broadcast
  /\ Len(desc.logicalShape) = 3
  /\ Exact
  /\ acc.out.texShape[1] * acc.out.texShape[2] = Numel
  /\ acc.out.texShape # desc.texShape
  /\ acc.out.texShape[1] > 1
  /\ desc.texShape[1] > 1
  /\ acc.a[1] > 0
  /\ acc.a[2] > 0
  /\ TexelAt(acc.uv, desc.texShape) # acc.a

(***************************************************************************)
(* The claims about the quantized codec.                                   *)
(***************************************************************************)
NanTexel == writeTexel([i \in 1 .. 4 |-> BYTE_NAN_VALUE])

\* C9: setOutput never writes the sentinel for a non-NaN value in
\* [FLOAT_MIN, FLOAT_MAX], and sample of what it wrote is never NaN.
C9_SentinelNotEncoded ==
  (texel # <<>> /\ ~value.nan)
    => /\ texel # NanTexel
       /\ decoded # <<>> => ~decoded[1].nan

QuantizationBound ==
  Div(Sub(maxValue, minValue),
      Mul(Mul(FromInt(255), FromInt(255)), Mul(FromInt(255), FromInt(255))))

\* C10: for a value in [FLOAT_MIN, FLOAT_MAX], sample of the texel written
\* by setOutput is a number within (FLOAT_MAX - FLOAT_MIN) / 255^4 of it.
C10_RoundTripBound ==
  (decoded # <<>> /\ ~value.nan)
    => /\ ~decoded[1].nan
       /\ LessEq(Abs(Sub(decoded[1], value)), QuantizationBound)

====
